---------------------------- MODULE Spec2Model ----------------------------
(***************************************************************************)
(* A model of src/app.py, the Flask site of voleibol-public: the           *)
(* per-match streak marker, the data accessors over the partidos_new and   *)
(* equipos tables, the locale resolution with its session, the request     *)
(* handlers, and the lazily created SQLAlchemy engine with its QueuePool.  *)
(*                                                                         *)
(* A result string ('3-1') is a sequence of one-character strings, so that *)
(* str.split and int() are computed character by character.                *)
(***************************************************************************)
EXTENDS Integers, Sequences, FiniteSets, Bags, TLC

\* ------------------------------------------------------------------ bounds
\* Longest result string drawn for the marker computation.
MaxLen == 4
\* Most rows of partidos_new when the pages are served.
MaxRows == 2
\* Most rows of partidos_new when the team statistics are computed.
MaxPartidos == 6
\* Most requests served at once by the threads of the server.
MaxInflight == 6
\* Most calls of create_engine followed: at most so many threads may be
\* between the test of _engine and its assignment at once.
MaxEngines == 2

\* ------------------------------------------------------------ text values
\* The characters result strings are drawn from: two digits, the separator,
\* a letter and a blank.
Chars == {"1", "3", "-", "x", " "}

\* Python's None (an absent query parameter, session key or environment
\* variable) and SQL's NULL in the text column resultado.
None == "None"
SqlNull == <<"NULL">>

\* All sequences over S of length at most n.
SeqsUpTo(S, n) == UNION {[1..k -> S] : k \in 0..n}

DigitVal(c) == CASE c = "0" -> 0 [] c = "1" -> 1 [] c = "2" -> 2
                 [] c = "3" -> 3 [] OTHER -> -1

IsDigit(c) == c \in {"0", "1", "2", "3"}

\* str.strip(): leading and trailing blanks removed.
RECURSIVE LStrip(_)
LStrip(s) == IF s /= <<>> /\ Head(s) = " " THEN LStrip(Tail(s)) ELSE s

RECURSIVE RStrip(_)
RStrip(s) == IF s /= <<>> /\ s[Len(s)] = " "
             THEN RStrip(SubSeq(s, 1, Len(s) - 1)) ELSE s

RECURSIVE DecValue(_)
DecValue(s) == IF s = <<>> THEN 0
               ELSE 10 * DecValue(SubSeq(s, 1, Len(s) - 1)) + DigitVal(s[Len(s)])

\* Python's int(token): blanks around the digits are ignored, anything else
\* (no digit at all, a letter, a blank between digits) raises ValueError.
\* The result is [ok, val]: ok is FALSE where int() raises.
PyInt(tok) ==
    LET t == RStrip(LStrip(tok))
    IN  IF t /= <<>> /\ \A i \in 1..Len(t) : IsDigit(t[i])
        THEN [ok |-> TRUE, val |-> DecValue(t)]
        ELSE [ok |-> FALSE, val |-> 0]

\* Python's s.split('-'): the fields between the separators, empty ones kept.
RECURSIVE Split(_)
Split(s) ==
    IF \A i \in 1..Len(s) : s[i] /= "-" THEN <<s>>
    ELSE LET k == CHOOSE i \in 1..Len(s) :
                     s[i] = "-" /\ \A j \in 1..(i - 1) : s[j] /= "-"
         IN  <<SubSeq(s, 1, k - 1)>> \o Split(SubSeq(s, k + 1, Len(s)))

\* The loop body with >= for >: a drawn match counts as won.
RachaMarker_TieWins(res, loc) ==
    LET partes == Split(res)
        sets_local == PyInt(partes[1])
        sets_visitante == IF Len(partes) >= 2 THEN PyInt(partes[2])
                          ELSE [ok |-> FALSE, val |-> 0]
    IN  IF ~sets_local.ok \/ ~sets_visitante.ok THEN "?"
        ELSE LET victoria == IF loc THEN sets_local.val >= sets_visitante.val
                             ELSE sets_visitante.val >= sets_local.val
             IN  IF victoria THEN "W" ELSE "L"

\* The body of the streak loop for one row: try: split, int(partes[0]),
\* int(partes[1]), compare on the side the team played; except: '?'.
RachaMarker(res, loc) ==
    LET partes == Split(res)
        sets_local == PyInt(partes[1])
        \* partes[1] of a string without separator raises IndexError
        sets_visitante == IF Len(partes) >= 2 THEN PyInt(partes[2])
                          ELSE [ok |-> FALSE, val |-> 0]
    IN  IF ~sets_local.ok \/ ~sets_visitante.ok THEN "?"
        ELSE LET victoria == IF loc THEN sets_local.val > sets_visitante.val
                             ELSE sets_visitante.val > sets_local.val
             IN  IF victoria THEN "W" ELSE "L"

\* ------------------------------------------------------------------ state
VARIABLES
    row,          \* the streak row at hand: [resultado, local]
    marker,       \* the marker appended for it, None before the loop body ran
    DATABASE_URL, \* os.environ.get("DATABASE_URL"): None, "" or a URL
    partidos,     \* table partidos_new, in id order: partidos[i] has id i
    session,      \* per client, the 'lang' of its session cookie, None if absent
    resp,         \* the last request and its response
    _engine,      \* the module global: None or an engine
    created,      \* how many times create_engine has been called
    inflight,     \* the requests being served by threads, a bag of
                  \* [route, equipo_id, todo, pc, engine]
    checkedout,   \* per engine, the connections checked out of its pool
    returned      \* the engines get_engine has returned so far

vars == <<row, marker, DATABASE_URL, partidos, session, resp, _engine, created,
          inflight, checkedout, returned>>

pool_vars == <<inflight, checkedout, returned>>

\* ------------------------------------------------------------ the tables
\* Table equipos, ORDER BY nombre, equipo_letra: the ids in that order.
EquiposTable == <<1, 2>>

\* Table jugadores (activo), per team, in roster order.
JugadoresTable(equipo_id) == IF equipo_id = 1 THEN <<"Alba", "Diaz">> ELSE <<>>

\* The scorers of acciones_new with at least one point, per team.
AnotadoresTable(equipo_id) == IF equipo_id = 1 THEN <<"Diaz">> ELSE <<>>

Min(a, b) == IF a <= b THEN a ELSE b

Take(s, n) == SubSeq(s, 1, Min(n, Len(s)))

\* LIMIT 5 of the streak query, LIMIT 10 of get_partidos_equipo, LIMIT 50 of
\* get_todos_resultados, [:10] of index.
RachaLimit == 5
PartidosLimit == 10
TodosLimit == 50
IndexLimit == 10

\* -------------------------------------------------- PostgreSQL expressions
\* SPLIT_PART(resultado, '-', n): the n-th field, '' when there is none.
SPLIT_PART(res, n) ==
    LET f == Split(res) IN IF n <= Len(f) THEN f[n] ELSE <<>>

\* text::int: blanks around the digits are skipped; an empty string or any
\* other character is "invalid input syntax for type integer", an error that
\* aborts the statement.
PgCastInt(tok) ==
    LET t == RStrip(LStrip(tok))
    IN  IF t = <<>> \/ \E i \in 1..Len(t) : ~IsDigit(t[i])
        THEN [ok |-> FALSE, val |-> 0]
        ELSE [ok |-> TRUE, val |-> DecValue(t)]

\* Whether evaluating the win/loss comparison on row p aborts the statement.
\* A NULL resultado gives NULL casts and no error.
CastRaises(p) ==
    /\ p.resultado /= SqlNull
    /\ \/ ~PgCastInt(SPLIT_PART(p.resultado, 1)).ok
       \/ ~PgCastInt(SPLIT_PART(p.resultado, 2)).ok

\* (local = true AND part1 > part2) OR (local = false AND part2 > part1),
\* NULL (not true) on a NULL resultado.
SqlVictoria(p) ==
    /\ p.resultado /= SqlNull
    /\ LET a == PgCastInt(SPLIT_PART(p.resultado, 1)).val
           b == PgCastInt(SPLIT_PART(p.resultado, 2)).val
       IN  IF p.local THEN a > b ELSE b > a

SqlDerrota(p) ==
    /\ p.resultado /= SqlNull
    /\ LET a == PgCastInt(SPLIT_PART(p.resultado, 1)).val
           b == PgCastInt(SPLIT_PART(p.resultado, 2)).val
       IN  IF p.local THEN a < b ELSE b < a

\* ORDER BY fecha DESC alone, rows of one date left in id order.
RECURSIVE OrderDesc_IdAsc(_)
OrderDesc_IdAsc(S) ==
    IF S = {} THEN <<>>
    ELSE LET m == CHOOSE i \in S : \A j \in S :
                      \/ partidos[i].fecha > partidos[j].fecha
                      \/ partidos[i].fecha = partidos[j].fecha /\ i <= j
         IN  <<m>> \o OrderDesc_IdAsc(S \ {m})

\* ORDER BY fecha DESC, id DESC over the rows (ids) of S.
RECURSIVE OrderDesc(_)
OrderDesc(S) ==
    IF S = {} THEN <<>>
    ELSE LET m == CHOOSE i \in S : \A j \in S :
                      \/ partidos[i].fecha > partidos[j].fecha
                      \/ partidos[i].fecha = partidos[j].fecha /\ i >= j
         IN  <<m>> \o OrderDesc(S \ {m})

\* ORDER BY p.fecha DESC alone: every order of S by descending date; rows of
\* one date come in any order.
OrdersByFecha(S) ==
    {s \in [1..Cardinality(S) -> S] :
        /\ \A i, j \in 1..Cardinality(S) : i /= j => s[i] /= s[j]
        /\ \A i, j \in 1..Cardinality(S) :
              i < j => partidos[s[i]].fecha >= partidos[s[j]].fecha}

TeamRows(equipo_id) ==
    {i \in 1..Len(partidos) : partidos[i].equipo_id = equipo_id}

\* ------------------------------------------------------------ the engine
\* _engine = None.
NoEngine == 0

\* if DATABASE_URL is not None: the empty string counts as a target.
Configured_NotNone == DATABASE_URL /= None

\* if DATABASE_URL: neither unset nor the empty string.
Configured == DATABASE_URL /= None /\ DATABASE_URL /= ""

\* get_engine() run without interruption: the engine it returns, which is
\* also the value of _engine afterwards.
get_engine ==
    IF _engine /= NoEngine THEN _engine
    ELSE IF Configured THEN created + 1
    ELSE NoEngine

\* ---------------------------------------------------------- the accessors
\* Each takes the engine its get_engine() call returned and gives
\* [raised, value]: raised when the statement aborted, which leaves the
\* accessor by an exception.
get_equipos(engine) ==
    IF engine = NoEngine THEN <<>> ELSE EquiposTable

NoStats == [present |-> FALSE, partidos |-> 0, victorias |-> 0,
            derrotas |-> 0, racha |-> <<>>]

get_equipo_stats(engine, equipo_id) ==
    IF engine = NoEngine THEN [raised |-> FALSE, value |-> NoStats]
    ELSE IF \E i \in TeamRows(equipo_id) : CastRaises(partidos[i])
    THEN [raised |-> TRUE, value |-> NoStats]
    ELSE LET ultimos == Take(OrderDesc({i \in TeamRows(equipo_id) :
                                 partidos[i].resultado /= SqlNull}), RachaLimit)
         IN  [raised |-> FALSE,
              value |-> [present |-> TRUE,
                  partidos |-> Cardinality(TeamRows(equipo_id)),
                  victorias |-> Cardinality({i \in TeamRows(equipo_id) :
                                                SqlVictoria(partidos[i])}),
                  derrotas |-> Cardinality({i \in TeamRows(equipo_id) :
                                                SqlDerrota(partidos[i])}),
                  racha |-> [k \in 1..Len(ultimos) |->
                                RachaMarker(partidos[ultimos[k]].resultado,
                                            partidos[ultimos[k]].local)]]]

get_jugadores_equipo(engine, equipo_id) ==
    IF engine = NoEngine THEN <<>> ELSE JugadoresTable(equipo_id)

get_top_anotadores(engine, equipo_id) ==
    IF engine = NoEngine THEN <<>> ELSE AnotadoresTable(equipo_id)

\* One row of the two result lists.
ResultRow(i) ==
    [id |-> i, resultado |-> partidos[i].resultado, local |-> partidos[i].local,
     resultado_tipo |-> IF SqlVictoria(partidos[i]) THEN "victoria"
                        ELSE "derrota"]

get_partidos_equipo(engine, equipo_id) ==
    IF engine = NoEngine THEN [raised |-> FALSE, value |-> <<>>]
    ELSE IF \E i \in TeamRows(equipo_id) : CastRaises(partidos[i])
    THEN [raised |-> TRUE, value |-> <<>>]
    ELSE LET ids == Take(OrderDesc(TeamRows(equipo_id)), PartidosLimit)
         IN  [raised |-> FALSE,
              value |-> [k \in 1..Len(ids) |-> ResultRow(ids[k])]]

\* The rows get_todos_resultados selects: a result, and a team to join.
TodosRows ==
    {i \in 1..Len(partidos) :
        /\ partidos[i].resultado /= SqlNull
        /\ \E k \in 1..Len(EquiposTable) : EquiposTable[k] = partidos[i].equipo_id}

\* order is the order the statement happened to return the rows in.
get_todos_resultados(engine, order) ==
    IF engine = NoEngine THEN [raised |-> FALSE, value |-> <<>>]
    ELSE IF \E i \in TodosRows : CastRaises(partidos[i])
    THEN [raised |-> TRUE, value |-> <<>>]
    ELSE LET ids == Take(order, TodosLimit)
         IN  [raised |-> FALSE,
              value |-> [k \in 1..Len(ids) |-> ResultRow(ids[k])]]

\* ------------------------------------------------------------- the locale
LANGUAGES == {"ca", "es", "en"}

\* request.accept_languages.best_match(LANGUAGES), no default given: accept
\* is the client's languages by descending quality; the supported one of
\* best quality, None when none is supported.
RECURSIVE best_match(_)
best_match(accept) ==
    IF accept = <<>> THEN None
    ELSE IF Head(accept) \in LANGUAGES THEN Head(accept)
    ELSE best_match(Tail(accept))

\* get_locale without line 23: a supported lang parameter is returned and
\* not stored.
get_locale_NoPersist(lang, sess, accept) ==
    IF lang /= None /\ lang /= "" /\ lang \in LANGUAGES
    THEN [value |-> lang, session |-> sess]
    ELSE IF sess /= None /\ sess \in LANGUAGES
    THEN [value |-> sess, session |-> sess]
    ELSE [value |-> best_match(accept), session |-> sess]

\* get_locale() on a request with query parameter lang (None if absent), a
\* session holding sess and Accept-Language accept: the value returned and
\* the session's lang afterwards.
get_locale(lang, sess, accept) ==
    IF lang /= None /\ lang /= "" /\ lang \in LANGUAGES
    THEN [value |-> lang, session |-> lang]
    ELSE IF sess /= None /\ sess \in LANGUAGES
    THEN [value |-> sess, session |-> sess]
    ELSE [value |-> best_match(accept), session |-> sess]

\* set_language without its membership test.
set_language_session_Unchecked(sess, code) == code

\* session['lang'] after set_language(code).
set_language_session(sess, code) ==
    IF code \in LANGUAGES THEN code ELSE sess

\* ----------------------------------------------------------- the handlers
\* One action per route, the whole handler in one step: the accessors it
\* calls, the template it renders (which runs inject_locale, hence
\* get_locale, which may write the session) and the response.  A handler that
\* redirects, sends a file or is left by an exception runs no get_locale.
NotCalled == "NotCalled"

NoView == [equipos |-> <<>>, resultados |-> <<>>, stats |-> NoStats,
           jugadores |-> <<>>, top_anotadores |-> <<>>, partidos |-> <<>>]

NoResp == [route |-> "none", client |-> None, lang |-> None, accept |-> <<>>,
           equipo_id |-> 0, code |-> None, referrer |-> None,
           status |-> 0, location |-> None, template |-> None,
           current_lang |-> NotCalled, calls |-> <<>>, view |-> NoView]

\* _engine and create_engine's count after a handler that called get_engine.
EngineUsed ==
    /\ _engine' = get_engine
    /\ created' = IF get_engine /= _engine THEN created + 1 ELSE created

\* render_template(template, view) answering client c.
Render(req, template, calls, view) ==
    LET gl == get_locale(req.lang, session[req.client], req.accept)
    IN  /\ session' = [session EXCEPT ![req.client] = gl.session]
        /\ resp' = [req EXCEPT !.status = 200, !.template = template,
                               !.current_lang = gl.value, !.calls = calls,
                               !.view = view]

\* An exception left the handler: Flask answers 500.
ServerError(req, calls) ==
    /\ resp' = [req EXCEPT !.status = 500, !.calls = calls]
    /\ UNCHANGED session

Redirect(req, location, calls) ==
    resp' = [req EXCEPT !.status = 302, !.location = location, !.calls = calls]

\* next(...) over the teams with a default that is always taken for found.
equipo_info_Always(equipos, equipo_id) == TRUE

\* equipo_info = next((e for e in equipos if e['id'] == equipo_id), None),
\* as the truth value the handler tests.
equipo_info(equipos, equipo_id) ==
    \E k \in 1..Len(equipos) : equipos[k] = equipo_id

Request(route, c, lang, accept) ==
    [NoResp EXCEPT !.route = route, !.client = c, !.lang = lang,
                   !.accept = accept]

index(c, lang, accept) ==
    LET req == Request("index", c, lang, accept)
        equipos == get_equipos(get_engine)
    IN  \E order \in OrdersByFecha(TodosRows) :
          LET todos == get_todos_resultados(get_engine, order)
              calls == <<"get_equipos", "get_todos_resultados">>
          IN  /\ EngineUsed
              /\ IF todos.raised THEN ServerError(req, calls)
                 ELSE Render(req, "index.html", calls,
                        [NoView EXCEPT !.equipos = equipos,
                            !.resultados = Take(todos.value, IndexLimit)])
              /\ UNCHANGED <<row, marker, DATABASE_URL, partidos, pool_vars>>

equipo(c, equipo_id, lang, accept) ==
    LET req == [Request("equipo", c, lang, accept) EXCEPT !.equipo_id = equipo_id]
        equipos == get_equipos(get_engine)
        found == equipo_info(equipos, equipo_id)
        stats == get_equipo_stats(get_engine, equipo_id)
        jugadores == get_jugadores_equipo(get_engine, equipo_id)
        top_anotadores == get_top_anotadores(get_engine, equipo_id)
        matches == get_partidos_equipo(get_engine, equipo_id)
    IN  /\ EngineUsed
        /\ IF ~found
           THEN Redirect(req, "/", <<"get_equipos">>) /\ UNCHANGED session
           ELSE IF stats.raised
           THEN ServerError(req, <<"get_equipos", "get_equipo_stats">>)
           ELSE IF matches.raised
           THEN ServerError(req, <<"get_equipos", "get_equipo_stats",
                    "get_jugadores_equipo", "get_top_anotadores",
                    "get_partidos_equipo">>)
           ELSE Render(req, "equipo.html",
                    <<"get_equipos", "get_equipo_stats", "get_jugadores_equipo",
                      "get_top_anotadores", "get_partidos_equipo">>,
                    [NoView EXCEPT !.equipos = equipos, !.stats = stats.value,
                        !.jugadores = jugadores,
                        !.top_anotadores = top_anotadores,
                        !.partidos = matches.value])
        /\ UNCHANGED <<row, marker, DATABASE_URL, partidos, pool_vars>>

resultados(c, lang, accept) ==
    LET req == Request("resultados", c, lang, accept)
        equipos == get_equipos(get_engine)
    IN  \E order \in OrdersByFecha(TodosRows) :
          LET todos == get_todos_resultados(get_engine, order)
              calls == <<"get_equipos", "get_todos_resultados">>
          IN  /\ EngineUsed
              /\ IF todos.raised THEN ServerError(req, calls)
                 ELSE Render(req, "resultados.html", calls,
                        [NoView EXCEPT !.equipos = equipos,
                                       !.resultados = todos.value])
              /\ UNCHANGED <<row, marker, DATABASE_URL, partidos, pool_vars>>

login(c, lang, accept) ==
    /\ Redirect(Request("login", c, lang, accept),
                "https://app.voleibolstats.com", <<>>)
    /\ UNCHANGED <<row, marker, DATABASE_URL, partidos, session, _engine, created, pool_vars>>

ads_txt(c, lang, accept) ==
    /\ resp' = [Request("ads_txt", c, lang, accept) EXCEPT !.status = 200]
    /\ UNCHANGED <<row, marker, DATABASE_URL, partidos, session, _engine, created, pool_vars>>

\* quisom, contacte, privacitat, avis_legal, cookies, com_funciona: each
\* renders its own template and calls no accessor.
StaticPages == {"quisom", "contacte", "privacitat", "avis-legal", "cookies",
                "com-funciona"}

static_page(page, c, lang, accept) ==
    /\ Render(Request(page, c, lang, accept), page, <<>>, NoView)
    /\ UNCHANGED <<row, marker, DATABASE_URL, partidos, _engine, created, pool_vars>>

set_language(c, code, referrer, lang, accept) ==
    LET req == [Request("set_language", c, lang, accept) EXCEPT
                    !.code = code, !.referrer = referrer]
    IN  /\ session' = [session EXCEPT
                          ![c] = set_language_session(session[c], code)]
        /\ Redirect(req, IF referrer /= None /\ referrer /= "" THEN referrer
                         ELSE "/", <<>>)
        /\ UNCHANGED <<row, marker, DATABASE_URL, partidos, _engine, created, pool_vars>>

\* ------------------------------------------------- the handlers, threaded
\* app.run serves each request on a thread of its own.  A request in flight
\* is [route, equipo_id, todo, pc, engine]: todo the accessors the handler
\* has still to call, the first being the one under way; pc where that
\* accessor stands; engine the local variable engine of the accessor.

\* create_engine(..., pool_size=2, max_overflow=3)
pool_size == 2
max_overflow == 3

\* The accessors a handler calls first.
FirstCalls(route) ==
    IF route = "equipo" THEN <<"get_equipos">>
    ELSE <<"get_equipos", "get_todos_resultados">>

\* Whether the statements of the accessor at the head of r.todo abort.
Raises(r) ==
    CASE Head(r.todo) = "get_equipo_stats"
            -> get_equipo_stats(r.engine, r.equipo_id).raised
      [] Head(r.todo) = "get_partidos_equipo"
            -> get_partidos_equipo(r.engine, r.equipo_id).raised
      [] Head(r.todo) = "get_todos_resultados"
            -> get_todos_resultados(r.engine, OrderDesc(TodosRows)).raised
      [] OTHER -> FALSE

\* The accessors left once the one at the head of r.todo has returned: the
\* team page goes on to its four accessors when get_equipos held the team.
Remaining(r) ==
    IF r.route = "equipo" /\ Head(r.todo) = "get_equipos"
    THEN IF equipo_info(get_equipos(r.engine), r.equipo_id)
         THEN <<"get_equipo_stats", "get_jugadores_equipo",
                "get_top_anotadores", "get_partidos_equipo">>
         ELSE <<>>
    ELSE Tail(r.todo)

\* The requests in flight with r replaced by what it becomes once its
\* accessor returned; a handler with nothing left to call answers and its
\* request is gone.
AccessorReturned(r) ==
    LET left == Remaining(r)
    IN  IF left = <<>> THEN inflight (-) SetToBag({r})
        ELSE (inflight (-) SetToBag({r}))
             (+) SetToBag({[r EXCEPT !.todo = left, !.pc = "get_engine",
                                     !.engine = NoEngine]})

Moved(r, pc, engine) ==
    (inflight (-) SetToBag({r}))
    (+) SetToBag({[r EXCEPT !.pc = pc, !.engine = engine]})

\* The threads between the test of _engine and its assignment.
Racing ==
    LET S == {r \in BagToSet(inflight) : r.pc = "create_engine"}
    IN  BagCardinality([r \in S |-> inflight[r]])

\* A thread takes a request and enters the handler's first accessor.
arrive(route, equipo_id) ==
    /\ BagCardinality(inflight) < MaxInflight
    /\ inflight' = inflight (+) SetToBag({[route |-> route,
                        equipo_id |-> equipo_id, todo |-> FirstCalls(route),
                        pc |-> "get_engine", engine |-> NoEngine]})
    /\ UNCHANGED <<row, marker, DATABASE_URL, partidos, session, resp,
                   _engine, created, checkedout, returned>>

\* get_engine up to its tests: _engine is returned if set; else, with a
\* target configured, the thread goes on to create_engine; else None is
\* returned and the accessor returns its empty result.
get_engine_test(r) ==
    /\ r.pc = "get_engine"
    /\ IF _engine /= NoEngine
       THEN /\ inflight' = Moved(r, "connect", _engine)
            /\ returned' = returned \cup {_engine}
       ELSE IF Configured
       THEN /\ created + Racing < MaxEngines
            /\ inflight' = Moved(r, "create_engine", NoEngine)
            /\ UNCHANGED returned
       ELSE /\ inflight' = AccessorReturned(r)
            /\ UNCHANGED returned
    /\ UNCHANGED <<row, marker, DATABASE_URL, partidos, session, resp,
                   _engine, created, checkedout>>

\* _engine = create_engine(...); return _engine
get_engine_create(r) ==
    /\ r.pc = "create_engine"
    /\ created' = created + 1
    /\ _engine' = created + 1
    /\ returned' = returned \cup {created + 1}
    /\ inflight' = Moved(r, "connect", created + 1)
    /\ UNCHANGED <<row, marker, DATABASE_URL, partidos, session, resp,
                   checkedout>>

\* with engine.connect() as conn: a connection of the engine's pool is
\* checked out, which waits while pool_size + max_overflow are out.
connect(r) ==
    /\ r.pc = "connect"
    /\ checkedout[r.engine] < pool_size + max_overflow
    /\ checkedout' = [checkedout EXCEPT ![r.engine] = @ + 1]
    /\ inflight' = Moved(r, "read_sql", r.engine)
    /\ UNCHANGED <<row, marker, DATABASE_URL, partidos, session, resp,
                   _engine, created, returned>>

\* The wait of connect() ends in the pool's TimeoutError, which leaves the
\* handler: the request is answered 500.
connect_timeout(r) ==
    /\ r.pc = "connect"
    /\ checkedout[r.engine] >= pool_size + max_overflow
    /\ inflight' = inflight (-) SetToBag({r})
    /\ UNCHANGED <<row, marker, DATABASE_URL, partidos, session, resp,
                   _engine, created, checkedout, returned>>

\* The statements of the accessor run and the with block is left, by return
\* or by the exception of an aborted statement: the connection goes back to
\* its pool either way.  The exception leaves the handler too (500).
read_sql(r) ==
    /\ r.pc = "read_sql"
    /\ checkedout' = [checkedout EXCEPT ![r.engine] = @ - 1]
    /\ inflight' = IF Raises(r) THEN inflight (-) SetToBag({r})
                   ELSE AccessorReturned(r)
    /\ UNCHANGED <<row, marker, DATABASE_URL, partidos, session, resp,
                   _engine, created, returned>>

\* ------------------------------------------------------ the specifications
Row(e, f, res, loc) ==
    [equipo_id |-> e, fecha |-> f, resultado |-> res, local |-> loc]

IdleWeb ==
    /\ session = [c \in {"c1", "c2"} |-> None]
    /\ resp = NoResp
    /\ _engine = NoEngine
    /\ created = 0
    /\ inflight = EmptyBag
    /\ checkedout = [e \in 1..MaxEngines |-> 0]
    /\ returned = {}

NoRacha ==
    /\ row = [resultado |-> <<>>, local |-> FALSE]
    /\ marker = None

\* The streak loop body on every result string and side.
InitRacha ==
    /\ row \in [resultado : SeqsUpTo(Chars, MaxLen), local : BOOLEAN]
    /\ marker = None
    /\ DATABASE_URL = None
    /\ partidos = <<>>
    /\ IdleWeb

RachaStep ==
    /\ marker = None
    /\ marker' = RachaMarker(row.resultado, row.local)
    /\ UNCHANGED <<row, DATABASE_URL, partidos, session, resp, _engine, created, pool_vars>>

NextRacha == RachaStep

SpecRacha == InitRacha /\ [][NextRacha]_vars

\* The pages over every small table and configuration, one client.
WebRowKinds ==
    {Row(1, 1, <<"3", "-", "1">>, TRUE),
     Row(1, 2, <<"x", "-", "1">>, TRUE),
     Row(2, 2, <<"1", "-", "3">>, FALSE),
     Row(2, 1, <<"3">>, FALSE),
     Row(1, 2, SqlNull, TRUE)}

InitWeb ==
    /\ DATABASE_URL \in {None, "", "postgres://db"}
    /\ partidos \in SeqsUpTo(WebRowKinds, MaxRows)
    /\ IdleWeb
    /\ NoRacha

NextWeb ==
    \E lang \in {None, "es"} :
        \/ index("c1", lang, <<>>)
        \/ \E id \in {1, 2, 3} : equipo("c1", id, lang, <<>>)
        \/ resultados("c1", lang, <<>>)
        \/ login("c1", lang, <<>>)
        \/ ads_txt("c1", lang, <<>>)
        \/ \E page \in {"quisom", "cookies"} : static_page(page, "c1", lang, <<>>)
        \/ \E code \in {"es", "fr"} : set_language("c1", code, None, lang, <<>>)

SpecWeb == InitWeb /\ [][NextWeb]_vars

\* The team page over larger tables of one team's matches: two of one date
\* with different outcomes, one of a later date, one without result.
StatsRowKinds ==
    {Row(1, 1, <<"3", "-", "1">>, TRUE),
     Row(1, 1, <<"3", "-", "1">>, FALSE),
     Row(1, 2, <<"1", "-", "3">>, FALSE),
     Row(1, 2, SqlNull, TRUE)}

InitStats ==
    /\ DATABASE_URL = "postgres://db"
    /\ partidos \in SeqsUpTo(StatsRowKinds, MaxPartidos)
    /\ IdleWeb
    /\ NoRacha

NextStats == \E id \in {1, 2} : equipo("c1", id, None, <<>>)

SpecStats == InitStats /\ [][NextStats]_vars

\* The locale over two clients, every kind of lang parameter and
\* Accept-Language, and pages that render, redirect or fail.
InitLocale ==
    /\ DATABASE_URL = "postgres://db"
    /\ partidos \in SeqsUpTo({Row(1, 1, <<"3", "-", "1">>, TRUE),
                              Row(1, 2, <<"x", "-", "1">>, TRUE)}, 1)
    /\ IdleWeb
    /\ NoRacha

NextLocale ==
    \E c \in {"c1", "c2"}, lang \in {None, "es", "fr"},
       accept \in {<<>>, <<"fr", "en">>} :
        \/ index(c, lang, accept)
        \/ \E id \in {1, 3} : equipo(c, id, lang, accept)
        \/ resultados(c, lang, accept)
        \/ login(c, lang, accept)
        \/ ads_txt(c, lang, accept)
        \/ static_page("quisom", c, lang, accept)
        \/ \E code \in {"ca", "fr"}, referrer \in {None, "/resultats"} :
              set_language(c, code, referrer, lang, accept)

SpecLocale == InitLocale /\ [][NextLocale]_vars

\* The threaded server: up to MaxInflight requests at once over a table with
\* a parseable and an unparseable result, configured or not.
InitPool ==
    /\ DATABASE_URL \in {"", "postgres://db"}
    /\ partidos = <<Row(1, 1, <<"3", "-", "1">>, TRUE),
                    Row(2, 2, <<"x", "-", "1">>, TRUE)>>
    /\ IdleWeb
    /\ NoRacha

NextPool ==
    \/ arrive("index", 0)
    \/ \E id \in {2, 3} : arrive("equipo", id)
    \/ \E r \in BagToSet(inflight) :
          \/ get_engine_test(r)
          \/ get_engine_create(r)
          \/ connect(r)
          \/ connect_timeout(r)
          \/ read_sql(r)

SpecPool == InitPool /\ [][NextPool]_vars

\* ================================================================ claims
Range(f) == {f[k] : k \in DOMAIN f}

\* The marker the specification gives a streak row: the two parts of 'A-B'
\* read as integers; a win on the side the team played; unknown when either
\* part is missing or no integer.
ClaimedMarker(res, loc) ==
    LET parts == Split(res)
        parsed == /\ Len(parts) >= 2
                  /\ PyInt(parts[1]).ok
                  /\ PyInt(parts[2]).ok
        A == PyInt(parts[1]).val
        B == PyInt(parts[2]).val
    IN  IF ~parsed THEN "?"
        ELSE IF (loc /\ A > B) \/ (~loc /\ B > A) THEN "W"
        ELSE "L"

\* C1: every streak row gets exactly one of 'W', 'L', '?': 'W' iff the team
\* won on its side, 'L' for every other pair of integers (a draw included),
\* '?' when the string has no separator or a part is no integer; '3-1' at
\* home is a win, '3-1' away and '1-3' at home are losses.
C1_MarkerPerRow ==
    marker /= None =>
        /\ marker \in {"W", "L", "?"}
        /\ marker = ClaimedMarker(row.resultado, row.local)
        /\ (\A i \in 1..Len(row.resultado) : row.resultado[i] /= "-")
              => marker = "?"
        /\ (\E i \in 1..Len(row.resultado) : row.resultado[i] = "x")
              /\ Len(Split(row.resultado)) <= 2 => marker = "?"
        /\ row.resultado = <<"3", "-", "1">>
              => marker = IF row.local THEN "W" ELSE "L"
        /\ row.resultado = <<"1", "-", "3">>
              => marker = IF row.local THEN "L" ELSE "W"
        /\ row.resultado = <<"3", "-", "3">> => marker = "L"

C1_Witness ==
    /\ marker = "?"
    /\ row.resultado = <<"x", "-", "1">>

DataRoutes == {"index", "equipo", "resultados"}

\* C2: an unparseable result is marked per match and aborts nothing: the
\* home, team and all-results pages are still answered (rendered, or the
\* redirect of an unknown team), whatever rows the table holds.
C2_PageSurvivesBadRow ==
    resp.route \in DataRoutes => resp.status /= 500

\* The language the specification resolves: the supported lang parameter,
\* else the supported session value, else the best supported preference,
\* else 'ca'.
ClaimedLocale(lang, sess, accept) ==
    IF lang \in LANGUAGES THEN lang
    ELSE IF sess \in LANGUAGES THEN sess
    ELSE IF \E k \in 1..Len(accept) : accept[k] \in LANGUAGES
    THEN accept[CHOOSE k \in 1..Len(accept) :
                    /\ accept[k] \in LANGUAGES
                    /\ \A j \in 1..(k - 1) : accept[j] \notin LANGUAGES]
    ELSE "ca"

\* C3: whenever get_locale ran, it returned the language of the resolution
\* order with default 'ca', and that is one of the three supported codes.
C3_ResolutionOrder ==
    resp.current_lang /= NotCalled =>
        /\ resp.current_lang \in LANGUAGES
        /\ resp.current_lang =
              ClaimedLocale(resp.lang, session[resp.client], resp.accept)

\* Whether the request of resp supplied a supported code that the
\* specification says is stored: the path code of /set-language, or ?lang=.
SuppliesCode(r) ==
    \/ r.route = "set_language" /\ r.code \in LANGUAGES
    \/ r.route /= "set_language" /\ r.lang \in LANGUAGES

SuppliedCode(r) == IF r.route = "set_language" THEN r.code ELSE r.lang

\* What C4 says of every request but the storing of ?lang=: a later request
\* without lang parameter resolves to the session's language whatever the
\* Accept-Language; the session keeps its language until a supported code is
\* supplied; no other client's session changes.
C4_Persistence ==
    /\ \A c \in DOMAIN session :
          /\ session[c] \in LANGUAGES
          /\ resp'.client = c
          /\ resp'.lang = None
          /\ resp'.current_lang /= NotCalled
          => resp'.current_lang = session[c]
    /\ \A c \in DOMAIN session :
          session[c] \in LANGUAGES /\ session'[c] /= session[c]
          => resp'.client = c /\ SuppliesCode(resp')
    /\ \A c \in DOMAIN session :
          resp'.client /= c => session'[c] = session[c]

\* C4 as stated: after any request carrying a supported ?lang=L, or
\* GET /set-language/L, the session holds L; and the persistence above.
C4_AnyRequestStores ==
    [][/\ SuppliesCode(resp') => session'[resp'.client] = SuppliedCode(resp')
       /\ C4_Persistence]_vars

\* C4 amended: after a request carrying a supported ?lang=L whose handler
\* rendered a template (get_locale ran), or GET /set-language/L, the session
\* holds L; and the persistence above.
C4_RenderedRequestStores ==
    [][/\ resp'.route = "set_language" /\ resp'.code \in LANGUAGES
          => session'[resp'.client] = resp'.code
       /\ resp'.current_lang /= NotCalled /\ resp'.lang \in LANGUAGES
          => session'[resp'.client] = resp'.lang
       /\ C4_Persistence]_vars

C4_Witness ==
    /\ resp.route = "index"
    /\ resp.lang = None
    /\ resp.accept = <<"fr", "en">>
    /\ resp.current_lang = "es"
    /\ session[resp.client] = "es"
    /\ \E d \in DOMAIN session : session[d] = "ca"

\* C5: a session's lang changes only in a request of that client that
\* supplies a supported code, to that code, so it is always one of the
\* three codes; an unsupported path code or lang parameter leaves every
\* session as it was, set_language still redirecting to the referrer or '/';
\* no request fails because of a language code.
C5_SessionWrittenOnlyOnSupported ==
    [][/\ \A c \in DOMAIN session :
             session'[c] /= session[c]
             => /\ resp'.client = c
                /\ session'[c] \in LANGUAGES
                /\ \/ resp'.route = "set_language" /\ resp'.code = session'[c]
                   \/ resp'.route /= "set_language" /\ resp'.lang = session'[c]
       /\ \A c \in DOMAIN session : session'[c] \in LANGUAGES \cup {None}
       /\ resp'.route = "set_language"
             => /\ resp'.status = 302
                /\ resp'.location = IF resp'.referrer = None THEN "/"
                                    ELSE resp'.referrer
                /\ resp'.code \notin LANGUAGES => session' = session
       /\ resp'.route /= "set_language" /\ resp'.lang \notin LANGUAGES
             => session' = session
       /\ resp'.status = 500
             => /\ resp'.route \in DataRoutes
                /\ \E i \in 1..Len(partidos) : CastRaises(partidos[i])]_vars

C5_Witness ==
    /\ resp.route = "set_language"
    /\ resp.code = "fr"
    /\ resp.status = 302
    /\ resp.location = "/resultats"
    /\ session[resp.client] = "es"

AllAccessors == <<"get_equipos", "get_equipo_stats", "get_jugadores_equipo",
                  "get_top_anotadores", "get_partidos_equipo">>

\* C7: with DATABASE_URL unset or empty no engine is ever created,
\* get_engine gives None, every list accessor gives the empty list and
\* get_equipo_stats None, none raising, and the home and all-results pages
\* render with empty teams and results.
C7_UnconfiguredDegrades ==
    DATABASE_URL \in {None, ""} =>
        /\ _engine = NoEngine /\ created = 0
        /\ get_engine = NoEngine
        /\ get_equipos(get_engine) = <<>>
        /\ \A order \in OrdersByFecha(TodosRows) :
              get_todos_resultados(get_engine, order)
                 = [raised |-> FALSE, value |-> <<>>]
        /\ \A id \in {1, 2, 3} :
              /\ get_jugadores_equipo(get_engine, id) = <<>>
              /\ get_top_anotadores(get_engine, id) = <<>>
              /\ get_partidos_equipo(get_engine, id)
                    = [raised |-> FALSE, value |-> <<>>]
              /\ ~get_equipo_stats(get_engine, id).raised
              /\ ~get_equipo_stats(get_engine, id).value.present
        /\ resp.route \in {"index", "resultados"}
              => /\ resp.status = 200
                 /\ resp.view.equipos = <<>>
                 /\ resp.view.resultados = <<>>

C7_Witness ==
    /\ DATABASE_URL = ""
    /\ partidos /= <<>>
    /\ resp.route = "index"
    /\ resp.status = 200

\* C8: the team page of an id that is no team (none is, unconfigured)
\* redirects to '/' having called get_equipos alone; the four team
\* accessors are called, and the page rendered, only for an id of a team.
C8_UnknownTeamRedirects ==
    resp.route = "equipo" =>
        LET known == /\ DATABASE_URL \notin {None, ""}
                     /\ resp.equipo_id \in Range(EquiposTable)
        IN  /\ ~known => /\ resp.status = 302
                         /\ resp.location = "/"
                         /\ resp.calls = <<"get_equipos">>
                         /\ resp.template = None
            /\ known => /\ Len(resp.calls) >= 2
                        /\ resp.status /= 302
            /\ resp.status = 200 => /\ known
                                    /\ resp.calls = AllAccessors
                                    /\ resp.template = "equipo.html"

C8_Witness ==
    /\ resp.route = "equipo"
    /\ resp.equipo_id = 3
    /\ DATABASE_URL = "postgres://db"
    /\ resp.status = 302
    /\ resp.location = "/"

\* The matches C9 counts for a team, and the order it gives them.
WithResult(equipo_id) ==
    {i \in 1..Len(partidos) : /\ partidos[i].equipo_id = equipo_id
                              /\ partidos[i].resultado /= SqlNull}

MoreRecent(j, i) ==
    \/ partidos[j].fecha > partidos[i].fecha
    \/ partidos[j].fecha = partidos[i].fecha /\ j > i

\* C9: the streak get_equipo_stats returns for a team has length
\* min(5, its matches with a result), its k-th entry is the marker of the
\* match with exactly k-1 more recent ones (date, then id, descending), and
\* it is empty for a team without such matches.
C9_StreakOfMostRecent ==
    resp.route = "equipo" /\ resp.view.stats.present =>
        LET R == WithResult(resp.equipo_id)
            racha == resp.view.stats.racha
        IN  /\ Len(racha) = Min(5, Cardinality(R))
            /\ R = {} => racha = <<>>
            /\ \A k \in 1..Len(racha) : \E i \in R :
                  /\ Cardinality({j \in R : MoreRecent(j, i)}) = k - 1
                  /\ racha[k] = ClaimedMarker(partidos[i].resultado,
                                              partidos[i].local)

C9_Witness ==
    /\ resp.route = "equipo"
    /\ resp.view.stats.present
    /\ Cardinality(WithResult(resp.equipo_id)) = 6
    /\ resp.view.stats.racha = <<"L", "W", "W", "L", "W">>

\* C6: create_engine is called at most once and every call of get_engine
\* returns the one engine, so _engine, once set, is never replaced.
C6_SingleEngine ==
    /\ created <= 1
    /\ Cardinality(returned) <= 1
    /\ \A r \in BagToSet(inflight) :
          r.engine /= NoEngine /\ _engine /= NoEngine => r.engine = _engine

\* The requests in flight that hold a connection of engine e.
Holding(e) ==
    LET S == {r \in BagToSet(inflight) : r.pc = "read_sql" /\ r.engine = e}
    IN  BagCardinality([r \in S |-> inflight[r]])

RECURSIVE TotalCheckedOut(_)
TotalCheckedOut(n) ==
    IF n = 0 THEN 0 ELSE checkedout[n] + TotalCheckedOut(n - 1)

\* C10: every connection checked out is held by an accessor under way (none
\* leaks, none outlives its accessor), and the connections checked out by
\* the requests in flight never number more than pool_size + max_overflow.
C10_PoolBound ==
    /\ \A e \in DOMAIN checkedout : checkedout[e] = Holding(e)
    /\ TotalCheckedOut(MaxEngines) <= pool_size + max_overflow

=============================================================================
